---- MODULE Spec2Model ----
(***************************************************************************)
(* A model of nock.js: the operators wut, lus, tis and fas, the eleven     *)
(* formula handlers, the dispatcher nock and the array grouper assoc.      *)
(*                                                                         *)
(* JavaScript values are modelled as tagged tuples:                        *)
(*   <<"a", n>>          a number n                                        *)
(*   <<"arr", id, els>>  an array object; id is its identity (what === on  *)
(*                       two arrays compares), els its elements in order   *)
(*   <<"u">>             undefined                                         *)
(* A cell is an array of two elements.  Arrays are never mutated by the    *)
(* program, so an array value carries its elements inline.                 *)
(*                                                                         *)
(* The outcome of a call is <<"ok", v>>, <<"throw", text, n>> (an Error    *)
(* whose message is text followed by n when text ends in ": ", or a        *)
(* TypeError), or <<"fuel">> when the evaluation did not finish within     *)
(* MaxCalls invocations of nock.                                           *)
(***************************************************************************)
EXTENDS Integers, Sequences, FiniteSets, TLC

VARIABLES fn, arg, out

vars == <<fn, arg, out>>

(***************************************************************************)
(* Bounds of the model.                                                    *)
(***************************************************************************)
MaxAtom == 1

MaxAddr == 15

\* The most invocations of nock one evaluation is followed for.
MaxCalls == 50

\* The most iterations the counting loop is asked for, and the longest chain
\* of formulas in return position.
MaxK == 3

\* The longest argument list handed to assoc.
MaxLen == 3

(***************************************************************************)
(* Values.                                                                 *)
(***************************************************************************)
A(n) == <<"a", n>>

Arr(id, els) == <<"arr", id, els>>

U == <<"u">>

Cell(id, h, t) == Arr(id, <<h, t>>)

IsNum(x) == x[1] = "a"

IsArr(x) == x[1] = "arr"

IsUndef(x) == x[1] = "u"

Ok(v) == <<"ok", v>>

Err(text, n) == <<"throw", text, n>>

TypeError == Err("TypeError", 0)

IsOk(o) == o[1] = "ok"

IsThrow(o) == o[1] = "throw"

\* x[i] on a number or past the end of an array is undefined.
Idx(x, i) == IF IsArr(x) /\ i < Len(x[3]) THEN x[3][i + 1] ELSE U

\* a === b: numbers by value, arrays by identity.
StrictEq(a, b) ==
  IF IsNum(a) /\ IsNum(b) THEN a[2] = b[2]
  ELSE IF IsArr(a) /\ IsArr(b) THEN a[2] = b[2]
  ELSE IsUndef(a) /\ IsUndef(b)

(***************************************************************************)
(* The operators.                                                          *)
(***************************************************************************)
wut(n) == IF IsNum(n) THEN 1 ELSE 0

lus(n) == IF wut(n) = 0 THEN Err("lus cell", 0) ELSE Ok(A(1 + n[2]))

tis(n) ==
  IF wut(n) = 1 THEN Err("tis atom", 0)
  ELSE IF IsUndef(n) THEN TypeError
  ELSE Ok(A(IF StrictEq(Idx(n, 0), Idx(n, 1)) THEN 0 ELSE 1))

\* addr % 2 in JavaScript takes the sign of addr.
JsRem2(a) == IF a >= 0 THEN a % 2 ELSE -(a % 2)

\* (addr / 2)|0 for an addr within the int32 range: truncation toward zero.
HalfInt32(a) == (a \div 2) + (IF a < 0 /\ a % 2 = 1 THEN 1 ELSE 0)

TwoTo30 == 1073741824

\* (addr / 2)|0 for addr = w * 2^31 + r with 0 <= r < 2^31: |0 keeps the low
\* 32 bits of floor(addr / 2) = w * 2^30 + r \div 2 and reads them as signed.
HalfInt32Wide(w, r) ==
  LET h == r \div 2
      q == w % 4
  IN  IF q = 0 THEN h
      ELSE IF q = 1 THEN TwoTo30 + h
      ELSE IF q = 2 THEN (h - TwoTo30) - TwoTo30
      ELSE h - TwoTo30

RECURSIVE fasNum(_, _)
fasNum(addr, n) ==
  IF IsUndef(n) THEN Err("invalid fas noun", 0)
  ELSE IF addr = 0 THEN Err("invalid fas addr: ", 0)
  ELSE IF addr = 1 THEN Ok(n)
  ELSE IF addr = 2 THEN Ok(Idx(n, 0))
  ELSE IF addr = 3 THEN Ok(Idx(n, 1))
  ELSE LET inner == fasNum(HalfInt32(addr), n)
       IN  IF IsThrow(inner) THEN inner
           ELSE fasNum(2 + JsRem2(addr), inner[2])

\* fas called with the number w * 2^31 + r, w >= 1, which is past int32.
fasWide(w, r, n) ==
  IF IsUndef(n) THEN Err("invalid fas noun", 0)
  ELSE LET inner == fasNum(HalfInt32Wide(w, r), n)
       IN  IF IsThrow(inner) THEN inner
           ELSE fasNum(2 + (r % 2), inner[2])

\* fas(addr, n) with addr a value.  An addr that is a cell or undefined turns
\* into NaN under % and /, and NaN|0 is 0, so the inner call is fas(0, n).
fas(addr, n) ==
  IF IsUndef(n) THEN Err("invalid fas noun", 0)
  ELSE IF IsNum(addr) THEN fasNum(addr[2], n)
  ELSE Err("invalid fas addr: ", 0)

(***************************************************************************)
(* The formulas and nock.  An evaluation threads m = [nid, calls]: the     *)
(* next unused array identity and the number of invocations of nock so     *)
(* far.  A result records, beside the outcome and the threaded state,      *)
(*   depth  the most invocations of nock pending at once beneath (for      *)
(*          nock: including) this call; V8 keeps a frame for every call,   *)
(*          a call in return position included;                            *)
(*   chain  the number of calls of nock in return position (return nock(..) *)
(*          in evaluate, ife, compose, extend, invoke and hint) on the     *)
(*          path of such calls that starts at this call;                   *)
(*   used   whether evaluate or invoke was entered.                        *)
(***************************************************************************)
Max(a, b) == IF a >= b THEN a ELSE b

Res(o, m, d, c, u) ==
  [o |-> o, nid |-> m.nid, calls |-> m.calls, depth |-> d, chain |-> c, used |-> u]

St(r) == [nid |-> r.nid, calls |-> r.calls]

Fuel == <<"fuel">>

\* A call whose callee r did not return: the fault passes through.
Fail(r, d, u) == [r EXCEPT !.depth = d, !.chain = 0, !.used = u]

\* e evaluated once, and K applied to its value: the statements of a function
\* body run in order, each result held in a local.
Then(e, K(_)) == CHOOSE y \in {K(x) : x \in {e}} : TRUE

RECURSIVE nock(_, _, _)

slot(s, f, m) ==
  Then(fas(f, s), LAMBDA p :
    IF IsThrow(p) THEN Res(p, m, 0, 0, FALSE)
    ELSE IF IsUndef(p[2]) THEN Res(Err("invalid fas addr: ", f[2]), m, 0, 0, FALSE)
    ELSE Res(p, m, 0, 0, FALSE))

constant(s, f, m) == Res(Ok(f), m, 0, 0, FALSE)

evaluate(s, f, m) ==
  Then(nock(s, Idx(f, 0), m), LAMBDA r1 :
    IF ~IsOk(r1.o) THEN Fail(r1, r1.depth, TRUE)
    ELSE Then(nock(s, Idx(f, 1), St(r1)), LAMBDA r2 :
      IF ~IsOk(r2.o) THEN Fail(r2, Max(r1.depth, r2.depth), TRUE)
      ELSE Then(nock(r1.o[2], r2.o[2], St(r2)), LAMBDA r3 :
        [r3 EXCEPT !.depth = Max(Max(r1.depth, r2.depth), r3.depth),
                   !.chain = 1 + r3.chain, !.used = TRUE])))

cell(s, f, m) ==
  Then(nock(s, f, m), LAMBDA r :
    IF ~IsOk(r.o) THEN Fail(r, r.depth, r.used)
    ELSE [r EXCEPT !.o = Ok(A(wut(r.o[2]))), !.chain = 0])

\* incr as it would be if it evaluated its operand twice.
incrTwice(s, f, m) ==
  Then(nock(s, f, m), LAMBDA r0 :
    IF ~IsOk(r0.o) THEN Fail(r0, r0.depth, r0.used)
    ELSE Then(nock(s, f, St(r0)), LAMBDA r :
      IF ~IsOk(r.o) THEN Fail(r, Max(r0.depth, r.depth), r0.used \/ r.used)
      ELSE [r EXCEPT !.o = lus(r.o[2]), !.depth = Max(r0.depth, r.depth),
                     !.chain = 0, !.used = r0.used \/ r.used]))

incr(s, f, m) ==
  Then(nock(s, f, m), LAMBDA r :
    IF ~IsOk(r.o) THEN Fail(r, r.depth, r.used)
    ELSE [r EXCEPT !.o = lus(r.o[2]), !.chain = 0])

eq(s, f, m) ==
  Then(nock(s, f, m), LAMBDA r :
    IF ~IsOk(r.o) THEN Fail(r, r.depth, r.used)
    ELSE [r EXCEPT !.o = tis(r.o[2]), !.chain = 0])

\* f[1][0] or f[1][1] is read only once the condition is known; reading it
\* from an undefined f[1] throws a TypeError.
ife(s, f, m) ==
  Then(nock(s, Idx(f, 0), m), LAMBDA r1 :
    IF ~IsOk(r1.o) THEN Fail(r1, r1.depth, r1.used)
    ELSE IF IsUndef(Idx(f, 1)) THEN Res(TypeError, St(r1), r1.depth, 0, r1.used)
    ELSE Then(nock(s, Idx(Idx(f, 1), IF StrictEq(r1.o[2], A(0)) THEN 0 ELSE 1), St(r1)),
              LAMBDA r2 :
      [r2 EXCEPT !.depth = Max(r1.depth, r2.depth),
                 !.chain = 1 + r2.chain, !.used = r1.used \/ r2.used]))

compose(s, f, m) ==
  Then(nock(s, Idx(f, 0), m), LAMBDA r1 :
    IF ~IsOk(r1.o) THEN Fail(r1, r1.depth, r1.used)
    ELSE Then(nock(r1.o[2], Idx(f, 1), St(r1)), LAMBDA r2 :
      [r2 EXCEPT !.depth = Max(r1.depth, r2.depth),
                 !.chain = 1 + r2.chain, !.used = r1.used \/ r2.used]))

extend(s, f, m) ==
  Then(nock(s, Idx(f, 0), m), LAMBDA r1 :
    IF ~IsOk(r1.o) THEN Fail(r1, r1.depth, r1.used)
    ELSE Then(nock(Cell(r1.nid, r1.o[2], s), Idx(f, 1),
                   [nid |-> r1.nid + 1, calls |-> r1.calls]), LAMBDA r2 :
      [r2 EXCEPT !.depth = Max(r1.depth, r2.depth),
                 !.chain = 1 + r2.chain, !.used = r1.used \/ r2.used]))

\* invoke as it would be if it resolved the address in the subject.
invokeInSubject(s, f, m) ==
  Then(nock(s, Idx(f, 1), m), LAMBDA prod :
    IF ~IsOk(prod.o) THEN Fail(prod, prod.depth, TRUE)
    ELSE Then(slot(s, Idx(f, 0), St(prod)), LAMBDA p :
      IF ~IsOk(p.o) THEN Fail(p, prod.depth, TRUE)
      ELSE Then(nock(prod.o[2], p.o[2], St(prod)), LAMBDA r2 :
        [r2 EXCEPT !.depth = Max(prod.depth, r2.depth),
                   !.chain = 1 + r2.chain, !.used = TRUE])))

\* invoke as it would be if its final call of nock took the place of the
\* invocation of nock that dispatched to it.
invokeInPlace(s, f, m) ==
  Then(nock(s, Idx(f, 1), m), LAMBDA prod :
    IF ~IsOk(prod.o) THEN Fail(prod, prod.depth, TRUE)
    ELSE Then(slot(prod.o[2], Idx(f, 0), St(prod)), LAMBDA p :
      IF ~IsOk(p.o) THEN Fail(p, prod.depth, TRUE)
      ELSE Then(nock(prod.o[2], p.o[2], St(prod)), LAMBDA r2 :
        [r2 EXCEPT !.depth = Max(prod.depth, r2.depth - 1),
                   !.chain = 1 + r2.chain, !.used = TRUE])))

invoke(s, f, m) ==
  Then(nock(s, Idx(f, 1), m), LAMBDA prod :
    IF ~IsOk(prod.o) THEN Fail(prod, prod.depth, TRUE)
    ELSE Then(slot(prod.o[2], Idx(f, 0), St(prod)), LAMBDA p :
      IF ~IsOk(p.o) THEN Fail(p, prod.depth, TRUE)
      ELSE Then(nock(prod.o[2], p.o[2], St(prod)), LAMBDA r2 :
        [r2 EXCEPT !.depth = Max(prod.depth, r2.depth),
                   !.chain = 1 + r2.chain, !.used = TRUE])))

\* The hint is evaluated when f[0] is a number, and then as f[0][1], which
\* is undefined.
hint(s, f, m) ==
  Then(IF wut(Idx(f, 0)) = 1 THEN nock(s, Idx(Idx(f, 0), 1), m)
       ELSE Res(Ok(U), m, 0, 0, FALSE), LAMBDA r0 :
    IF ~IsOk(r0.o) THEN Fail(r0, r0.depth, r0.used)
    ELSE Then(nock(s, Idx(f, 1), St(r0)), LAMBDA r1 :
      [r1 EXCEPT !.depth = Max(r0.depth, r1.depth),
                 !.chain = 1 + r1.chain, !.used = r0.used \/ r1.used]))

\* formulas[op](s, f).  Indexing an undefined f throws a TypeError.
formulas(op, s, f, m) ==
  IF IsUndef(f) /\ op \in {2, 6, 7, 8, 9, 10} THEN Res(TypeError, m, 0, 0, op \in {2, 9})
  ELSE CASE op = 0 -> slot(s, f, m)
         [] op = 1 -> constant(s, f, m)
         [] op = 2 -> evaluate(s, f, m)
         [] op = 3 -> cell(s, f, m)
         [] op = 4 -> incr(s, f, m)
         [] op = 5 -> eq(s, f, m)
         [] op = 6 -> ife(s, f, m)
         [] op = 7 -> compose(s, f, m)
         [] op = 8 -> extend(s, f, m)
         [] op = 9 -> invoke(s, f, m)
         [] op = 10 -> hint(s, f, m)

\* [nock(s, f[0]), nock(s, f[1])]: the array is made once both are back.
autocons(s, f, m) ==
  Then(nock(s, Idx(f, 0), m), LAMBDA r1 :
    IF ~IsOk(r1.o) THEN Fail(r1, r1.depth, r1.used)
    ELSE Then(nock(s, Idx(f, 1), St(r1)), LAMBDA r2 :
      IF ~IsOk(r2.o) THEN Fail(r2, Max(r1.depth, r2.depth), r1.used \/ r2.used)
      ELSE Res(Ok(Cell(r2.nid, r1.o[2], r2.o[2])),
               [nid |-> r2.nid + 1, calls |-> r2.calls],
               Max(r1.depth, r2.depth), 0, r1.used \/ r2.used)))

nock(s, f, m) ==
  IF m.calls >= MaxCalls THEN Res(Fuel, m, 0, 0, FALSE)
  ELSE Then(IF IsUndef(f) THEN Res(TypeError, [m EXCEPT !.calls = @ + 1], 0, 0, FALSE)
            ELSE IF wut(Idx(f, 0)) = 0 THEN autocons(s, f, [m EXCEPT !.calls = @ + 1])
            ELSE IF Idx(f, 0)[2] > 10
              THEN Res(Err("invalid formula: ", Idx(f, 0)[2]),
                       [m EXCEPT !.calls = @ + 1], 0, 0, FALSE)
            ELSE formulas(Idx(f, 0)[2], s, Idx(f, 1), [m EXCEPT !.calls = @ + 1]),
            LAMBDA h : [h EXCEPT !.depth = 1 + h.depth])

(***************************************************************************)
(* Inputs: nouns as a caller writes them.  A literal written by the caller *)
(* is a tree of separately constructed arrays; Label gives every array of  *)
(* a tree its own identity, numbering them from nid.                       *)
(***************************************************************************)
RECURSIVE Label(_, _), LabelEls(_, _)
Label(x, nid) ==
  IF ~IsArr(x) THEN <<x, nid>>
  ELSE LET r == LabelEls(x[3], nid + 1)
       IN  <<Arr(nid, r[1]), r[2]>>

LabelEls(els, nid) ==
  IF Len(els) = 0 THEN <<els, nid>>
  ELSE LET h == Label(Head(els), nid)
           t == LabelEls(Tail(els), h[2])
       IN  <<<<h[1]>> \o t[1], t[2]>>

\* The structure of a value: every identity erased.
RECURSIVE Strip(_)
Strip(x) ==
  IF ~IsArr(x) THEN x
  ELSE Arr(0, [i \in 1..Len(x[3]) |-> Strip(x[3][i])])

Atoms == {A(n) : n \in 0..MaxAtom}

Pairs(S) == {Cell(0, h, t) : h \in S, t \in S}

Nouns1 == Atoms \cup Pairs(Atoms)

Nouns2 == Atoms \cup Pairs(Nouns1)

\* Tree shapes to depth 3, each leaf holding its own tree address.
Shapes1 == {A(0), Cell(0, A(0), A(0))}

Shapes2 == {A(0)} \cup Pairs(Shapes1)

Shapes3 == {A(0)} \cup Pairs(Shapes2)

RECURSIVE AddrLeaves(_, _)
AddrLeaves(x, p) ==
  IF IsArr(x) THEN Cell(0, AddrLeaves(x[3][1], 2 * p), AddrLeaves(x[3][2], 2 * p + 1))
  ELSE A(p)

FasNouns == {Label(AddrLeaves(sh, 1), 1)[1] : sh \in Shapes3}

\* A chain of d separately constructed cells nested through their heads:
\* the noun in which the address 2^d exists.
RECURSIVE HeadChain(_)
HeadChain(d) == IF d = 0 THEN A(0) ELSE Cell(d, HeadChain(d - 1), A(d))

WideDepth == 32

WideNoun == HeadChain(WideDepth)

\* The caller's cell [a, b]: two separately constructed nouns, or the same
\* object passed twice.
TwoObjects(a, b) == Label(Cell(0, a, b), 1)[1]

SameObject(a) == LET la == Label(a, 2)[1] IN Cell(1, la, la)

OperatorInputs ==
  {<<"noun", n>> : n \in Atoms}
    \cup {<<"noun", TwoObjects(a, b)>> : a \in Nouns2, b \in Nouns2}
    \cup {<<"noun", SameObject(a)>> : a \in Nouns2}
    \cup {<<"fas", a, n>> : a \in 0..MaxAddr, n \in FasNouns}
    \cup {<<"wide", w, r, n>> : w \in 1..4, r \in {0, 1}, n \in {WideNoun, A(0)}}

(***************************************************************************)
(* SpecOperators: one call of an exported operator on a caller's input.    *)
(***************************************************************************)
InitOperators == fn = "none" /\ out = <<"none">> /\ arg \in OperatorInputs

CallWut ==
  /\ fn = "none" /\ arg[1] = "noun"
  /\ fn' = "wut" /\ out' = Ok(A(wut(arg[2]))) /\ UNCHANGED arg

CallLus ==
  /\ fn = "none" /\ arg[1] = "noun"
  /\ fn' = "lus" /\ out' = lus(arg[2]) /\ UNCHANGED arg

CallTis ==
  /\ fn = "none" /\ arg[1] = "noun"
  /\ fn' = "tis" /\ out' = tis(arg[2]) /\ UNCHANGED arg

CallFas ==
  /\ fn = "none" /\ arg[1] = "fas"
  /\ fn' = "fas" /\ out' = fas(A(arg[2]), arg[3]) /\ UNCHANGED arg

CallFasWide ==
  /\ fn = "none" /\ arg[1] = "wide"
  /\ fn' = "fas" /\ out' = fasWide(arg[2], arg[3], arg[4]) /\ UNCHANGED arg

NextOperators == CallWut \/ CallLus \/ CallTis \/ CallFas \/ CallFasWide

SpecOperators == InitOperators /\ [][NextOperators]_vars

(***************************************************************************)
(* What the claims about the operators speak of.                           *)
(***************************************************************************)
\* The bits of a positive address below its leading 1, most significant first.
RECURSIVE Bits(_)
Bits(a) == IF a <= 1 THEN <<>> ELSE Append(Bits(a \div 2), a % 2)

RECURSIVE LowBits(_, _)
LowBits(r, k) == IF k = 0 THEN <<>> ELSE Append(LowBits(r \div 2, k - 1), r % 2)

\* The sub-noun a bit path leads to, head for 0 and tail for 1; undefined
\* when a head or tail of an atom would be taken.
RECURSIVE Walk(_, _)
Walk(bits, n) ==
  IF Len(bits) = 0 THEN n
  ELSE IF ~IsArr(n) THEN U
  ELSE Walk(Tail(bits), Idx(n, Head(bits)))

\* The address, as its bit path, and the noun of the call of fas.
FasPath == IF arg[1] = "fas" THEN Bits(arg[2]) ELSE Bits(arg[2]) \o LowBits(arg[3], 31)

FasNoun == IF arg[1] = "fas" THEN arg[3] ELSE arg[4]

FasAddrIsZero == arg[1] = "fas" /\ arg[2] = 0

\* C1: tis applied to the cell [a b] returns 0 when a and b are structurally
\* equal, also when they are two separately constructed cells, and 1 when
\* they differ at any depth.
TisIsDeep ==
  (fn = "tis" /\ IsArr(arg[2])) =>
    out = Ok(A(IF Strip(Idx(arg[2], 0)) = Strip(Idx(arg[2], 1)) THEN 0 ELSE 1))

\* C4: fas called directly throws, and returns no non-noun, whenever the
\* address is 0 or resolving it takes the head or tail of an atom.
FasThrowsWhenMissing ==
  (fn = "fas" /\ (FasAddrIsZero \/ IsUndef(Walk(FasPath, FasNoun)))) => IsThrow(out)

\* C5: for every positive address whose sub-noun exists in the noun, fas
\* returns the sub-noun its bit path leads to.
FasFollowsBits ==
  (fn = "fas" /\ ~FasAddrIsZero /\ ~IsUndef(Walk(FasPath, FasNoun))) =>
    out = Ok(Walk(FasPath, FasNoun))

(***************************************************************************)
(* Inputs of nock: a subject and a formula, each a literal of the caller.  *)
(***************************************************************************)
P(h, t) == Cell(0, h, t)

Op(n, x) == P(A(n), x)

\* Formulas that call nock no further, an atom in the place of a formula,
\* and an opcode past 10.
Leaf ==
  {Op(0, A(a)) : a \in 0..3}
    \cup {Op(1, c) : c \in Atoms \cup {P(A(0), A(1))}}
    \cup {A(0), Op(11, A(0))}

Unary == {Op(n, g) : n \in {3, 4, 5}, g \in Leaf}

Cons == {P(g, h) : g \in Leaf, h \in Leaf}

Binary == {Op(n, P(g, h)) : n \in {2, 7, 8}, g \in Leaf, h \in Leaf}

Small == {Op(0, A(0)), Op(0, A(1)), Op(1, A(0)), Op(4, Op(0, A(1)))}

Invoke == {Op(9, P(A(b), c)) : b \in 0..3, c \in Leaf \cup Cons}

Ife == {Op(6, P(c, P(t, e))) : c \in Leaf \cup Unary, t \in Small, e \in Small}

HintAtom == {Op(10, P(A(b), c)) : b \in {0, 37}, c \in Leaf \cup Unary}

HintCell == {Op(10, P(P(A(0), h), c)) : h \in Leaf, c \in Small}

Nested == {Op(n, g) : n \in {3, 4, 5}, g \in Unary \cup Cons}

Tower == {Op(n, Op(4, Op(4, g))) : n \in {3, 4}, g \in Small}

Formulas ==
  Leaf \cup Unary \cup Cons \cup Binary \cup Invoke \cup Ife
    \cup HintAtom \cup HintCell \cup Nested \cup Tower

Subjects == Nouns1 \cup {P(Op(0, A(1)), A(0)), P(A(0), Op(4, Op(0, A(1))))}

\* The scenarios of the specification: subject [132 19].
Scenario ==
  {<<P(A(132), A(19)), f>> :
     f \in {Op(0, A(3)), Op(4, Op(0, A(3))), Op(10, P(A(37), Op(4, Op(0, A(3)))))}}

\* A core that counts: [arm [n k]].  The arm returns n when n = k and
\* otherwise invokes itself in the core [arm [n+1 k]]:
\*   [6 [5 [0 3]] [0 6] [9 2 [[0 2] [[4 [0 6]] [0 7]]]]]
LoopArm ==
  Op(6, P(Op(5, Op(0, A(3))),
          P(Op(0, A(6)),
            Op(9, P(A(2), P(Op(0, A(2)), P(Op(4, Op(0, A(6))), Op(0, A(7)))))))))

LoopCore(n, k) == P(LoopArm, P(A(n), A(k)))

LoopStart == Op(9, P(A(2), Op(0, A(1))))

\* Started past its limit the loop counts on without end.
Loops == {<<LoopCore(0, k), LoopStart>> : k \in 0..MaxK} \cup {<<LoopCore(1, 0), LoopStart>>}

\* n invokes, each in the return position of the one before: [9 1 [1 X]]
\* takes X for its core and evaluates X against X.
RECURSIVE InvokeChain(_)
InvokeChain(n) ==
  IF n = 0 THEN Op(0, A(1)) ELSE Op(9, P(A(1), Op(1, InvokeChain(n - 1))))

\* n composes, each in the return position of the one before.
RECURSIVE ComposeChain(_)
ComposeChain(n) ==
  IF n = 0 THEN Op(0, A(1)) ELSE Op(7, P(Op(0, A(1)), ComposeChain(n - 1)))

Chains == {<<A(0), c>> : c \in {InvokeChain(n) : n \in 1..MaxK} \cup {ComposeChain(n) : n \in 1..MaxK}}

NockInput(s, f) ==
  LET ls == Label(s, 1)
      lf == Label(f, ls[2])
  IN  <<"sf", ls[1], lf[1], [nid |-> lf[2], calls |-> 0]>>

NockInputs ==
  {NockInput(s, f) : s \in Subjects, f \in Formulas}
    \cup {NockInput(x[1], x[2]) : x \in Scenario \cup Loops \cup Chains}

(***************************************************************************)
(* SpecNock: one call of the exported _nock, or of an exported formula     *)
(* function on the operand of the formula.                                 *)
(***************************************************************************)
InitNock == fn = "none" /\ out = <<"none">> /\ arg \in NockInputs

CallNock ==
  /\ fn = "none" /\ arg[1] = "sf"
  /\ fn' = "nock" /\ out' = nock(arg[2], arg[3], arg[4]) /\ UNCHANGED arg

\* The opcode of the formula, -1 when its head is no number.
OpOf(f) == IF IsNum(Idx(f, 0)) THEN Idx(f, 0)[2] ELSE -1

CallSlot ==
  /\ fn = "none" /\ arg[1] = "sf" /\ OpOf(arg[3]) = 0
  /\ fn' = "slot" /\ out' = slot(arg[2], Idx(arg[3], 1), arg[4]) /\ UNCHANGED arg

CallConstant ==
  /\ fn = "none" /\ arg[1] = "sf" /\ OpOf(arg[3]) = 1
  /\ fn' = "constant" /\ out' = constant(arg[2], Idx(arg[3], 1), arg[4]) /\ UNCHANGED arg

CallEvaluate ==
  /\ fn = "none" /\ arg[1] = "sf" /\ OpOf(arg[3]) = 2
  /\ fn' = "evaluate" /\ out' = evaluate(arg[2], Idx(arg[3], 1), arg[4]) /\ UNCHANGED arg

CallCell ==
  /\ fn = "none" /\ arg[1] = "sf" /\ OpOf(arg[3]) = 3
  /\ fn' = "cell" /\ out' = cell(arg[2], Idx(arg[3], 1), arg[4]) /\ UNCHANGED arg

CallIncr ==
  /\ fn = "none" /\ arg[1] = "sf" /\ OpOf(arg[3]) = 4
  /\ fn' = "incr" /\ out' = incr(arg[2], Idx(arg[3], 1), arg[4]) /\ UNCHANGED arg

CallEq ==
  /\ fn = "none" /\ arg[1] = "sf" /\ OpOf(arg[3]) = 5
  /\ fn' = "eq" /\ out' = eq(arg[2], Idx(arg[3], 1), arg[4]) /\ UNCHANGED arg

CallIfe ==
  /\ fn = "none" /\ arg[1] = "sf" /\ OpOf(arg[3]) = 6
  /\ fn' = "ife" /\ out' = ife(arg[2], Idx(arg[3], 1), arg[4]) /\ UNCHANGED arg

CallCompose ==
  /\ fn = "none" /\ arg[1] = "sf" /\ OpOf(arg[3]) = 7
  /\ fn' = "compose" /\ out' = compose(arg[2], Idx(arg[3], 1), arg[4]) /\ UNCHANGED arg

CallExtend ==
  /\ fn = "none" /\ arg[1] = "sf" /\ OpOf(arg[3]) = 8
  /\ fn' = "extend" /\ out' = extend(arg[2], Idx(arg[3], 1), arg[4]) /\ UNCHANGED arg

CallInvoke ==
  /\ fn = "none" /\ arg[1] = "sf" /\ OpOf(arg[3]) = 9
  /\ fn' = "invoke" /\ out' = invoke(arg[2], Idx(arg[3], 1), arg[4]) /\ UNCHANGED arg

CallHint ==
  /\ fn = "none" /\ arg[1] = "sf" /\ OpOf(arg[3]) = 10
  /\ fn' = "hint" /\ out' = hint(arg[2], Idx(arg[3], 1), arg[4]) /\ UNCHANGED arg

NextNock ==
  \/ CallNock
  \/ CallSlot
  \/ CallConstant
  \/ CallEvaluate
  \/ CallCell
  \/ CallIncr
  \/ CallEq
  \/ CallIfe
  \/ CallCompose
  \/ CallExtend
  \/ CallInvoke
  \/ CallHint

SpecNock == InitNock /\ [][NextNock]_vars

(***************************************************************************)
(* assoc, and the exported nock that builds its arguments with it.  An     *)
(* array literal and x.slice(1) each allocate a new array; the elements of *)
(* the literal are evaluated left to right.                                *)
(***************************************************************************)
\* assoc as it would be without the unwrapping of a one-element array.
RECURSIVE assocNoUnwrap(_, _)
assocNoUnwrap(x, nid) ==
  IF ~IsArr(x) \/ Len(x[3]) = 0 THEN <<x, nid>>
  ELSE IF Len(x[3]) = 1 THEN <<x, nid>>
  ELSE LET h == assocNoUnwrap(x[3][1], nid)
           t == assocNoUnwrap(Arr(h[2], Tail(x[3])), h[2] + 1)
       IN  <<Arr(t[2], <<h[1], t[1]>>), t[2] + 1>>

\* The value returned and the next free array identity.  A number has no
\* length, so !x.length holds of it as of the empty array.
RECURSIVE assoc(_, _)
assoc(x, nid) ==
  IF ~IsArr(x) \/ Len(x[3]) = 0 THEN <<x, nid>>
  ELSE IF Len(x[3]) = 1 THEN assoc(x[3][1], nid)
  ELSE LET h == assoc(x[3][1], nid)
           t == assoc(Arr(h[2], Tail(x[3])), h[2] + 1)
       IN  <<Arr(t[2], <<h[1], t[1]>>), t[2] + 1>>

\* exports.nock(...): the arguments are grouped by assoc, then evaluated.
exportsNock(x, nid) ==
  Then(assoc(x, nid), LAMBDA args :
    nock(Idx(args[1], 0), Idx(args[1], 1), [nid |-> args[2], calls |-> 0]))

\* The elements of an argument list: atoms, cells of atoms, and arrays that
\* are no nouns: the empty array, a one-element array, a three-element array.
Elems ==
  Nouns1 \cup {Arr(0, <<>>), Arr(0, <<A(1)>>), Arr(0, <<A(0), A(1), A(0)>>)}

SeqsOf(S, n) == UNION {[1..k -> S] : k \in 0..n}

AssocInputs ==
  {<<"seq", Label(Arr(0, els), 1)[1], Label(Arr(0, els), 1)[2]>> :
     els \in SeqsOf(Elems, MaxLen)}

(***************************************************************************)
(* SpecAssoc: one call of util.assoc on an array, or of the exported nock  *)
(* on an argument list.                                                    *)
(***************************************************************************)
InitAssoc == fn = "none" /\ out = <<"none">> /\ arg \in AssocInputs

CallAssoc ==
  /\ fn = "none" /\ arg[1] = "seq"
  /\ fn' = "assoc" /\ out' = assoc(arg[2], arg[3]) /\ UNCHANGED arg

CallExportsNock ==
  /\ fn = "none" /\ arg[1] = "seq"
  /\ fn' = "exports.nock" /\ out' = exportsNock(arg[2], arg[3]) /\ UNCHANGED arg

NextAssoc ==
  \/ CallAssoc
  \/ CallExportsNock

SpecAssoc == InitAssoc /\ [][NextAssoc]_vars

(***************************************************************************)
(* What the claim about assoc speaks of.                                   *)
(***************************************************************************)
\* A noun: an atom, or a two-element array of nouns.
RECURSIVE IsNoun(_)
IsNoun(x) ==
  \/ IsNum(x)
  \/ IsArr(x) /\ Len(x[3]) = 2 /\ IsNoun(x[3][1]) /\ IsNoun(x[3][2])

\* A flat sequence: every element is a noun already.
Flat(x) == IsArr(x) /\ \A i \in 1..Len(x[3]) : IsNoun(x[3][i])

\* [x1, ..., xn] nested to the right, n >= 1, identities erased.
RECURSIVE RightNest(_)
RightNest(els) ==
  IF Len(els) = 1 THEN Strip(els[1])
  ELSE Arr(0, <<Strip(els[1]), RightNest(Tail(els))>>)

\* C8: assoc returns the empty array itself; of a one-element array it
\* returns the element when that is an atom and the association of the
\* element when that is an array; of a flat sequence of two elements or more
\* it returns the pair of x1, unchanged, and the rest nested to the right.
AssocNestsRight ==
  fn = "assoc" =>
    IF Len(arg[2][3]) = 0 THEN out[1] = arg[2]
    ELSE IF Len(arg[2][3]) = 1
      THEN IF IsArr(arg[2][3][1])
             THEN /\ out[1] = assoc(arg[2][3][1], arg[3])[1]
                  /\ (Flat(arg[2][3][1]) /\ Len(arg[2][3][1][3]) >= 1)
                       => Strip(out[1]) = RightNest(arg[2][3][1][3])
             ELSE out[1] = arg[2][3][1]
    ELSE Flat(arg[2]) =>
           /\ Strip(out[1]) = RightNest(arg[2][3])
           /\ Strip(Idx(out[1], 0)) = Strip(arg[2][3][1])
           /\ Strip(Idx(out[1], 1)) = Strip(assoc(Arr(0, Tail(arg[2][3])), 0)[1])

\* A flat sequence of MaxLen elements, a cell among them, grouped into a
\* pair whose tail is a pair again.
AssocNestsRightWitness ==
  /\ fn = "assoc" /\ Len(arg[2][3]) = MaxLen /\ Flat(arg[2])
  /\ \E i \in 1..MaxLen : IsArr(arg[2][3][i])
  /\ IsArr(Idx(out[1], 1)) /\ IsArr(Idx(Idx(out[1], 1), 1))

(***************************************************************************)
(* What the claims about nock speak of.                                    *)
(***************************************************************************)
NS == arg[2]

NF == arg[3]

NM == arg[4]

Operand == Idx(NF, 1)

RECURSIVE Size(_)
Size(x) == IF IsArr(x) THEN 1 + Size(Idx(x, 0)) + Size(Idx(x, 1)) ELSE 1

RECURSIVE Nesting(_)
Nesting(x) == IF IsArr(x) THEN 1 + Max(Nesting(Idx(x, 0)), Nesting(Idx(x, 1))) ELSE 0

SameProduct(o1, o2) == IsOk(o1) /\ IsOk(o2) /\ Strip(o1[2]) = Strip(o2[2])

IsHintAtom == OpOf(NF) = 10 /\ IsArr(Operand) /\ IsNum(Idx(Operand, 0))

IsHintCell == OpOf(NF) = 10 /\ IsArr(Operand) /\ IsArr(Idx(Operand, 0))

\* C2: with an atom hint b, whenever eval(s, c) succeeds, eval(s, [10 b c])
\* succeeds and returns the product of eval(s, c).
HintAtomIsTransparent ==
  (fn = "nock" /\ IsHintAtom) =>
    LET c == nock(NS, Idx(Operand, 1), NM)
    IN  IsOk(c.o) => SameProduct(out.o, c.o)

\* C7: with a cell hint b, the tail of b is evaluated against s first: when
\* that fails eval(s, [10 b c]) fails too, and when it
\* succeeds the result is that of eval(s, c).
HintCellIsEvaluated ==
  (fn = "nock" /\ IsHintCell) =>
    LET h == nock(NS, Idx(Idx(Operand, 0), 1), NM)
        c == nock(NS, Idx(Operand, 1), NM)
    IN  IF IsThrow(h.o) THEN IsThrow(out.o)
        ELSE (IsOk(h.o) /\ IsOk(c.o)) => SameProduct(out.o, c.o)

\* C3: when the condition of [6 cond then else] evaluates to a cell the
\* evaluation throws, and nock is invoked on neither branch.
IfeRejectsCellCondition ==
  (fn = "nock" /\ OpOf(NF) = 6 /\ IsArr(Operand)) =>
    LET c == nock(NS, Idx(Operand, 0), NM)
    IN  (IsOk(c.o) /\ IsArr(c.o[2])) => (IsThrow(out.o) /\ out.calls = c.calls + 1)

IsInvoke == OpOf(NF) = 9 /\ IsArr(Operand) /\ IsNum(Idx(Operand, 0))

\* The core of [9 b c]: eval(s, c), evaluated as the first thing nock(s, f)
\* does after it is entered.
Core == nock(NS, Idx(Operand, 1), [NM EXCEPT !.calls = 1])

AddrInCore == Walk(Bits(Idx(Operand, 0)[2]), Core.o[2])

\* C6: eval(s, [9 b c]) is eval(core, resolve(b, core)) with core =
\* eval(s, c): b is resolved in the core and the formula found there is
\* evaluated against the core; a fault of eval(s, c) passes through, and the
\* evaluation fails when b is 0 or does not exist in the core.
InvokeResolvesInCore ==
  (fn = "nock" /\ IsInvoke) =>
    IF ~IsOk(Core.o) THEN out.o = Core.o
    ELSE IF Idx(Operand, 0)[2] = 0 \/ IsUndef(AddrInCore) THEN IsThrow(out.o)
    ELSE /\ fas(Idx(Operand, 0), Core.o[2]) = Ok(AddrInCore)
         /\ out.o = nock(Core.o[2], AddrInCore, St(Core)).o

\* An invoke that succeeded on an address that leads elsewhere, or nowhere,
\* in the subject.
InvokeResolvesInCoreWitness ==
  /\ fn = "nock" /\ IsInvoke /\ IsOk(out.o) /\ IsOk(Core.o)
  /\ Idx(Operand, 0)[2] > 1
  /\ Strip(AddrInCore) # Strip(Walk(Bits(Idx(Operand, 0)[2]), NS))

IsLoopRun == Strip(NF) = LoopStart /\ Strip(Idx(NS, 0)) = LoopArm

\* C9 as stated: a core that invokes itself k times through opcode 9 keeps
\* the invocations of nock pending at once within a constant given by the
\* nesting of its formula, whatever k is.
TailChainsStayFlat ==
  (fn = "nock" /\ IsLoopRun) => out.depth <= Nesting(LoopArm)

\* C9 as amended: every call of nock in return position holds one more
\* pending invocation of nock, so the invocations pending at once are at
\* least one more than the calls in return position that follow one another.
TailCallsStack ==
  (fn = "nock" /\ out.o # Fuel) => out.depth >= out.chain + 1

\* The counting loop run to its limit MaxK: it returned MaxK, every
\* iteration invoked the arm again through opcode 9, and the invocations
\* pending at once passed the nesting of the arm.
TailCallsStackWitness ==
  /\ fn = "nock" /\ IsLoopRun /\ out.o = Ok(A(MaxK))
  /\ out.chain >= MaxK + 1
  /\ out.depth > Nesting(LoopArm)

\* C10: an evaluation in which neither evaluate nor invoke is entered
\* finishes, returning or throwing, within as many invocations of nock as
\* the formula has nodes, and one more for the invocation on undefined that
\* throws the TypeError.
NoReductionTerminates ==
  (fn = "nock" /\ ~out.used) => (out.o # Fuel /\ out.calls <= Size(NF) + 1)

\* A finished evaluation through compose or extend, which change the subject,
\* that returned after several invocations of nock.
NoReductionTerminatesWitness ==
  /\ fn = "nock" /\ ~out.used /\ IsOk(out.o)
  /\ OpOf(NF) \in {7, 8} /\ out.calls >= 3

====
